---------------------------- MODULE Spec2Model ----------------------------
(***************************************************************************)
(* Model of src/baza.py ("Magazyn Pro"): a Streamlit script over two       *)
(* Supabase tables, kategorie and produkty, with three memoised read       *)
(* functions (st.cache_data, ttl = 10 s).                                  *)
(*                                                                         *)
(* Conventions                                                             *)
(*  - a text value is a sequence of one-character strings;                 *)
(*  - a row is a record; a field whose value is None/NULL is a key that    *)
(*    is absent from the record (dict.get then yields None);               *)
(*  - cena (a float) is carried in halves: the integer c stands for c/2;   *)
(*    a numeric argument of add_produkt/update_produkt is carried in       *)
(*    halves too, so that int() is a real conversion (it truncates);       *)
(*    liczba as stored (an integer column) is carried in whole units, and  *)
(*    so wartosc = liczba * cena is in halves;                             *)
(*  - Python's 0-based list positions are 1-based sequence positions here. *)
(***************************************************************************)
EXTENDS Integers, Sequences, FiniteSets, TLC

VARIABLES
    kategorie,      \* table kategorie: a set of rows
    produkty,       \* table produkty: a set of rows
    cache_data,     \* st.cache_data: one entry per memoised function
    df,             \* rows of the data frame built at line 164
    metrics,        \* what the Dashboard shows, <<>> on every other page
    last            \* the last event and how it ended

vars == <<kategorie, produkty, cache_data, df, metrics, last>>

---------------------------------------------------------------------------
(* Bounds and input sets *)

MaxId == 2          \* ids the storage hands out are drawn from 1..MaxId
MaxNum == 1         \* numbers typed into a form are drawn from 0..MaxNum
MaxLimit == 1       \* "Prog niskiego stanu" is drawn from 0..MaxLimit

Ids == 1 .. MaxId

\* what the user types into "Nazwa kategorii"
NameInputs == { <<>>, <<" ">>, <<" ", "a", " ">>, <<"b">> }

\* what the user types into "Nazwa produktu"
ProdNameInputs == { <<>>, <<" ", " ">>, <<"p", " ">> }

\* what the user types into the "Opis" text area
OpisInputs == { <<" ", "x">> }

\* number_input(min_value=0, step=1): whole numbers >= 0
LiczbaInputs == 0 .. MaxNum

\* number_input(min_value=0.0): floats >= 0, in halves
CenaInputs == 0 .. MaxNum

menu == { "Dashboard", "Podglad Danych", "Edytuj produkt",
          "Dodaj Kategorie", "Dodaj Produkt", "Usun Element" }

---------------------------------------------------------------------------
(* Python built-ins *)

RECURSIVE lstrip(_)
lstrip(s) == IF s # <<>> /\ Head(s) = " " THEN lstrip(Tail(s)) ELSE s

RECURSIVE rstrip(_)
rstrip(s) ==
    IF s # <<>> /\ s[Len(s)] = " " THEN rstrip(SubSeq(s, 1, Len(s) - 1)) ELSE s

\* the check "if not nazwa:" in place of "if not nazwa.strip():"
strip_missing(s) == s

\* str.strip()
strip(s) == rstrip(lstrip(s))

\* abs(int(x)): the quantity forced to be >= 0
int_abs(h) == IF h >= 0 THEN h \div 2 ELSE (-h) \div 2

\* int(x) of a number carried in halves: truncation toward zero
int(h) == IF h >= 0 THEN h \div 2 ELSE -((-h) \div 2)

\* float(x) of a number carried in halves keeps the value
float(h) == h

\* a whole number n as an argument carried in halves
Whole(n) == 2 * n

\* dict.get(key), then "or default": None and a falsy value give the default
GetOr(row, key, default) ==
    IF key \in DOMAIN row /\ row[key] # 0 THEN row[key] ELSE default

Has(row, key) == key \in DOMAIN row

\* a record extended by one more field
With(row, key, value) ==
    [k \in DOMAIN row \cup {key} |-> IF k = key THEN value ELSE row[k]]

---------------------------------------------------------------------------
(* The storage: what the Supabase queries do to the two tables *)

IdsOf(table) == { r.id : r \in table }

\* the row of a table with the smallest id
MinRow(table) == CHOOSE r \in table : \A q \in table : r.id <= q.id

\* .select(...).order("id").execute().data
RECURSIVE select_order_id(_)
select_order_id(table) ==
    IF table = {} THEN <<>>
    ELSE <<MinRow(table)>> \o select_order_id(table \ {MinRow(table)})

\* produkty.kategoria_id REFERENCES kategorie(id): a row may be written
\* when its kategoria_id is NULL or the id of a row of kategorie
ForeignKeyHolds(kats, row) ==
    Has(row, "kategoria_id") => row.kategoria_id \in IdsOf(kats)

\* a storage that lets a referenced category go
StillReferenced_unchecked(prods, kat_id) == FALSE

\* the same constraint seen from kategorie: a row some product references
\* cannot be deleted
StillReferenced(prods, kat_id) ==
    \E p \in prods : Has(p, "kategoria_id") /\ p.kategoria_id = kat_id

\* ids the storage may assign to a new row (PRIMARY KEY: unique in the table)
FreshIds(table) == Ids \ IdsOf(table)

---------------------------------------------------------------------------
(* DB functions, lines 58-130.  Each write returns the tables after the    *)
(* call and what it raised ("" when it returned normally).                 *)

Returned(kats, prods) == [kategorie |-> kats, produkty |-> prods, raised |-> ""]

Raised(kats, prods, what) ==
    [kategorie |-> kats, produkty |-> prods, raised |-> what]

\* the argument None where a text is expected (no text is this sequence)
None == <<"None">>

\* the row add_kategoria inserts: {"nazwa": nazwa, "opis": opis}
KategoriaPayload(nazwa, opis) ==
    IF opis = None THEN [nazwa |-> nazwa]
    ELSE [nazwa |-> nazwa, opis |-> opis]

add_kategoria(kats, prods, nazwa, opis, new_id) ==
    Returned(kats \cup {With(KategoriaPayload(nazwa, opis), "id", new_id)}, prods)

\* the two numbers written to each other's column
ProduktPayload_swapped(nazwa, liczba, cena, kategoria_id) ==
    IF kategoria_id = 0
    THEN [nazwa |-> nazwa, liczba |-> int(cena), cena |-> float(liczba)]
    ELSE [nazwa |-> nazwa, liczba |-> int(cena), cena |-> float(liczba),
          kategoria_id |-> kategoria_id]

\* the row add_produkt and update_produkt write (lines 100-105, 111-116);
\* kategoria_id = 0 stands for the argument None
ProduktPayload(nazwa, liczba, cena, kategoria_id) ==
    IF kategoria_id = 0
    THEN [nazwa |-> nazwa, liczba |-> int(liczba), cena |-> float(cena)]
    ELSE [nazwa |-> nazwa, liczba |-> int(liczba), cena |-> float(cena),
          kategoria_id |-> kategoria_id]

\* .insert(row): the storage checks the row, then keeps it
Insert(kats, prods, row) ==
    IF ForeignKeyHolds(kats, row)
    THEN Returned(kats, prods \cup {row})
    ELSE Raised(kats, prods, "foreign_key_violation")

add_produkt(kats, prods, nazwa, liczba, cena, kategoria_id, new_id) ==
    Insert(kats, prods,
           With(ProduktPayload(nazwa, liczba, cena, kategoria_id), "id", new_id))

\* .update(payload).eq("id", prod_id): every matching row is overwritten;
\* no matching row is not an error for the client
Update(kats, prods, prod_id, row) ==
    IF prod_id \notin IdsOf(prods) THEN Returned(kats, prods)
    ELSE IF ForeignKeyHolds(kats, row)
    THEN Returned(kats, { p \in prods : p.id # prod_id } \cup {row})
    ELSE Raised(kats, prods, "foreign_key_violation")

update_produkt(kats, prods, prod_id, nazwa, liczba, cena, kategoria_id) ==
    Update(kats, prods, prod_id,
           With(ProduktPayload(nazwa, liczba, cena, kategoria_id), "id", prod_id))

\* .delete().eq("id", prod_id)
delete_produkt(kats, prods, prod_id) ==
    Returned(kats, { p \in prods : p.id # prod_id })

\* .delete() with the .eq("id", kat_id) filter lost: every row is deleted
delete_kategoria_no_filter(kats, prods, kat_id) ==
    IF \E k \in kats : StillReferenced(prods, k.id)
    THEN Raised(kats, prods, "foreign_key_violation")
    ELSE Returned({}, prods)

\* .delete().eq("id", kat_id)
delete_kategoria(kats, prods, kat_id) ==
    IF StillReferenced(prods, kat_id)
    THEN Raised(kats, prods, "foreign_key_violation")
    ELSE Returned({ k \in kats : k.id # kat_id }, prods)

(* st.cache_data: an entry is <<>> (nothing cached) or <<value>> *)

EmptyCache == [fetch_kategorie |-> <<>>, fetch_produkty_raw |-> <<>>,
               fetch_produkty_join |-> <<>>]

Entries == DOMAIN EmptyCache

\* a memoised call: the value returned and the cache afterwards
Call(val, cache) == [val |-> val, cache |-> cache]

\* a call served from the cache
Hit(cache, entry) == Call(cache[entry][1], cache)

\* a call that ran the function body: its result is stored
Store(cache, entry, data) == Call(data, [cache EXCEPT ![entry] = <<data>>])

fetch_kategorie(cache, kats) ==
    IF cache.fetch_kategorie # <<>> THEN Hit(cache, "fetch_kategorie")
    ELSE Store(cache, "fetch_kategorie", select_order_id(kats))

fetch_produkty_raw(cache, prods) ==
    IF cache.fetch_produkty_raw # <<>> THEN Hit(cache, "fetch_produkty_raw")
    ELSE Store(cache, "fetch_produkty_raw", select_order_id(prods))

\* kat_map = {k["id"]: k.get("nazwa") for k in kats}, then kat_map.get(id)
KatMapHas(kats, id) == \E i \in 1 .. Len(kats) : kats[i].id = id

KatMapGet(kats, id) ==
    kats[CHOOSE j \in 1 .. Len(kats) :
             kats[j].id = id /\ \A m \in j + 1 .. Len(kats) : kats[m].id # id].nazwa

\* wartosc computed as a sum
JoinBase_sum(p, liczba, cena) ==
    [id |-> p.id, nazwa |-> p.nazwa, liczba |-> liczba,
     cena |-> float(cena), wartosc |-> liczba + float(cena)]

\* lines 79-89: the derived row without its "kategoria".  liczba read from
\* the integer column is a whole number, which int() and float() leave as it is
JoinBase(p, liczba, cena) ==
    [id |-> p.id, nazwa |-> p.nazwa, liczba |-> liczba,
     cena |-> float(cena), wartosc |-> liczba * float(cena)]

\* lines 78-90: one derived row
JoinRow(p, kats) ==
    IF Has(p, "kategoria_id") /\ KatMapHas(kats, p.kategoria_id)
    THEN With(JoinBase(p, GetOr(p, "liczba", 0), GetOr(p, "cena", 0)),
              "kategoria", KatMapGet(kats, p.kategoria_id))
    ELSE JoinBase(p, GetOr(p, "liczba", 0), GetOr(p, "cena", 0))

\* lines 75-91: the body of fetch_produkty_join
JoinRows(prods, kats) == [i \in 1 .. Len(prods) |-> JoinRow(prods[i], kats)]

\* lines 72-91 with the two inner calls done: r and k are what they returned
JoinBody(r, k) == Store(k.cache, "fetch_produkty_join", JoinRows(r.val, k.val))

JoinAfterRaw(r, kats) == JoinBody(r, fetch_kategorie(r.cache, kats))

fetch_produkty_join(cache, kats, prods) ==
    IF cache.fetch_produkty_join # <<>> THEN Hit(cache, "fetch_produkty_join")
    ELSE JoinAfterRaw(fetch_produkty_raw(cache, prods), kats)

\* refresh() without st.cache_data.clear()
refresh_keeps(cache) == cache

\* st.cache_data.clear() of refresh(); st.rerun() is the Rerun below
refresh(cache) == EmptyCache

---------------------------------------------------------------------------
(* The script, lines 136-338: one run renders the page `choice` *)

\* lines 173-181: the Dashboard's three figures
RECURSIVE SumOf(_, _)
SumOf(rows, column) ==
    IF rows = <<>> THEN 0 ELSE Head(rows)[column] + SumOf(Tail(rows), column)

\* the threshold compared with < in place of <=
Aggregate_strict(rows, limit_niskiego_stanu) ==
    IF rows = <<>>
    THEN [total_value |-> 0, total_items |-> 0, low_stock_count |-> 0]
    ELSE [total_value |-> SumOf(rows, "wartosc"),
          total_items |-> SumOf(rows, "liczba"),
          low_stock_count |->
              Cardinality({ i \in 1 .. Len(rows) :
                              rows[i].liczba < limit_niskiego_stanu })]

Aggregate(rows, limit_niskiego_stanu) ==
    IF rows = <<>>
    THEN [total_value |-> 0, total_items |-> 0, low_stock_count |-> 0]
    ELSE [total_value |-> SumOf(rows, "wartosc"),
          total_items |-> SumOf(rows, "liczba"),
          low_stock_count |->
              Cardinality({ i \in 1 .. Len(rows) :
                              rows[i].liczba <= limit_niskiego_stanu })]

\* the reads of one run: line 164 on every page, then the page's own
\* (lines 229 and 237, 285, 313 and 325); a list the page does not read is <<>>
ScriptEnd(j, r, k) ==
    [df |-> j.val, prods |-> r.val, kategorie |-> k.val, cache |-> k.cache]

ScriptKats(j, r, kats, choice) ==
    ScriptEnd(j, r,
        IF \/ choice \in {"Dodaj Produkt", "Usun Element"}
           \/ choice = "Edytuj produkt" /\ r.val # <<>>
        THEN fetch_kategorie(r.cache, kats) ELSE Call(<<>>, r.cache))

ScriptProds(j, kats, prods, choice) ==
    ScriptKats(j,
        IF choice \in {"Edytuj produkt", "Usun Element"}
        THEN fetch_produkty_raw(j.cache, prods) ELSE Call(<<>>, j.cache),
        kats, choice)

Script(cache, kats, prods, choice) ==
    ScriptProds(fetch_produkty_join(cache, kats, prods), kats, prods, choice)

\* kat_names = list(kat_options.keys()): the distinct names, each where it
\* first occurs (lines 238-239, 289, 295)
KeysAppend(front, name) ==
    IF \E i \in 1 .. Len(front) : front[i] = name THEN front
    ELSE Append(front, name)

RECURSIVE DictKeys(_)
DictKeys(kats) ==
    IF kats = <<>> THEN <<>>
    ELSE KeysAppend(DictKeys(SubSeq(kats, 1, Len(kats) - 1)), kats[Len(kats)].nazwa)

kat_names(kats) ==
    IF kats = <<>> THEN << <<"(brak kategorii)">> >> ELSE DictKeys(kats)

\* kat_options[name] of {k["nazwa"]: k["id"] for k in kategorie}: a later row
\* of the same name overwrites the id of an earlier one
kat_options(kats, name) ==
    kats[CHOOSE j \in 1 .. Len(kats) :
             /\ kats[j].nazwa = name
             /\ \A m \in j + 1 .. Len(kats) : kats[m].nazwa # name].id

\* lines 241-246: the positions in kat_names of a name whose id is p's
DefaultNames(kats, names, p) ==
    { i \in 1 .. Len(names) :
        /\ kats # <<>>
        /\ Has(p, "kategoria_id")
        /\ kat_options(kats, names[i]) = p.kategoria_id }

FirstOf(found) == IF found # {} THEN CHOOSE i \in found : \A m \in found : i <= m ELSE 1

\* lines 241-248: the position preselected in the "Kategoria" selectbox
default_index(kats, p) == FirstOf(DefaultNames(kats, kat_names(kats), p))

\* line 261: the id written for the name picked at position kat_idx;
\* 0 stands for None
new_kat_id(kats, kat_idx) ==
    IF kats # <<>> THEN kat_options(kats, kat_names(kats)[kat_idx]) ELSE 0

\* a run that ends without refresh(): a plain render, a warning, an error
Shown(s, op, outcome) ==
    /\ cache_data' = s.cache
    /\ df' = s.df
    /\ last' = [op |-> op, outcome |-> outcome]
    /\ UNCHANGED <<kategorie, produkty>>

\* st.rerun(): the script runs again, on the same page, over the new tables
Rerun(res, again, op) ==
    /\ kategorie' = res.kategorie
    /\ produkty' = res.produkty
    /\ cache_data' = again.cache
    /\ df' = again.df
    /\ metrics' = <<>>
    /\ last' = [op |-> op, outcome |-> "success"]

\* what follows a write: an exception leaves the run (caught: "error", not
\* caught: "exception"); otherwise st.success, then refresh()
AfterWrite(s, res, choice, op, caught) ==
    IF res.raised # ""
    THEN Shown(s, op, caught) /\ metrics' = <<>>
    ELSE Rerun(res, Script(refresh(s.cache), res.kategorie, res.produkty, choice), op)

\* st.warning: the name is empty once stripped, nothing is written
Warned(s, op) == Shown(s, op, "warning") /\ metrics' = <<>>

\* a page is looked at, nothing is submitted
RenderOn(s, choice, limit_niskiego_stanu) ==
    /\ Shown(s, "render", "rendered")
    /\ metrics' = IF choice = "Dashboard"
                  THEN <<Aggregate(s.df, limit_niskiego_stanu)>> ELSE <<>>

Render(choice, limit_niskiego_stanu) ==
    RenderOn(Script(cache_data, kategorie, produkty, choice), choice,
             limit_niskiego_stanu)

\* lines 226-264
EditSubmitOn(s, sel, nazwa, liczba, cena, kat_idx) ==
    /\ s.prods # <<>>
    /\ sel \in 1 .. Len(s.prods)
    /\ kat_idx \in 1 .. Len(kat_names(s.kategorie))
    /\ IF strip(nazwa) = <<>> THEN Warned(s, "edit")
       ELSE AfterWrite(s,
                update_produkt(kategorie, produkty, s.prods[sel].id, strip(nazwa),
                               Whole(liczba), cena, new_kat_id(s.kategorie, kat_idx)),
                "Edytuj produkt", "edit", "exception")

EditSubmit(sel, nazwa, liczba, cena, kat_idx) ==
    EditSubmitOn(Script(cache_data, kategorie, produkty, "Edytuj produkt"),
                 sel, nazwa, liczba, cena, kat_idx)

\* lines 266-280
AddKategoriaSubmitOn(s, nazwa, opis) ==
    IF strip(nazwa) = <<>> THEN Warned(s, "add_kategoria")
    ELSE \E new_id \in FreshIds(kategorie) :
           AfterWrite(s,
               add_kategoria(kategorie, produkty, strip(nazwa),
                             IF opis # <<>> THEN strip(opis) ELSE None, new_id),
               "Dodaj Kategorie", "add_kategoria", "exception")

AddKategoriaSubmit(nazwa, opis) ==
    AddKategoriaSubmitOn(Script(cache_data, kategorie, produkty, "Dodaj Kategorie"),
                         nazwa, opis)

\* lines 282-304
AddProduktSubmitOn(s, nazwa, liczba, cena, kat_idx) ==
    /\ s.kategorie # <<>>
    /\ kat_idx \in 1 .. Len(kat_names(s.kategorie))
    /\ IF strip(nazwa) = <<>> THEN Warned(s, "add_produkt")
       ELSE \E new_id \in FreshIds(produkty) :
              AfterWrite(s,
                  add_produkt(kategorie, produkty, strip(nazwa), Whole(liczba), cena,
                              new_kat_id(s.kategorie, kat_idx), new_id),
                  "Dodaj Produkt", "add_produkt", "exception")

AddProduktSubmit(nazwa, liczba, cena, kat_idx) ==
    AddProduktSubmitOn(Script(cache_data, kategorie, produkty, "Dodaj Produkt"),
                       nazwa, liczba, cena, kat_idx)

\* lines 312-322
DeleteProduktClickOn(s, sel) ==
    /\ s.prods # <<>>
    /\ sel \in 1 .. Len(s.prods)
    /\ AfterWrite(s, delete_produkt(kategorie, produkty, s.prods[sel].id),
                  "Usun Element", "delete_produkt", "exception")

DeleteProduktClick(sel) ==
    DeleteProduktClickOn(Script(cache_data, kategorie, produkty, "Usun Element"), sel)

\* lines 324-338: the only write inside try/except
DeleteKategoriaClickOn(s, sel) ==
    /\ s.kategorie # <<>>
    /\ sel \in 1 .. Len(s.kategorie)
    /\ AfterWrite(s, delete_kategoria(kategorie, produkty, s.kategorie[sel].id),
                  "Usun Element", "delete_kategoria", "error")

DeleteKategoriaClick(sel) ==
    DeleteKategoriaClickOn(Script(cache_data, kategorie, produkty, "Usun Element"), sel)

\* @st.cache_data(ttl=10): an entry older than ten seconds is dropped
TtlExpires(entry) ==
    /\ cache_data[entry] # <<>>
    /\ cache_data' = [cache_data EXCEPT ![entry] = <<>>]
    /\ last' = [op |-> "ttl", outcome |-> "expired"]
    /\ UNCHANGED <<kategorie, produkty, df, metrics>>

\* the storage is empty and the script has run once, on the Dashboard, with
\* the threshold at its default (line 139)
Init ==
    /\ kategorie = {}
    /\ produkty = {}
    /\ cache_data = Script(EmptyCache, {}, {}, "Dashboard").cache
    /\ df = <<>>
    /\ metrics = <<Aggregate(<<>>, 5)>>
    /\ last = [op |-> "render", outcome |-> "rendered"]

Next ==
    \/ \E limit \in 0 .. MaxLimit : Render("Dashboard", limit)
    \/ \E choice \in menu \ {"Dashboard"} : Render(choice, 0)
    \/ \E sel \in Ids, nazwa \in ProdNameInputs, liczba \in LiczbaInputs,
          cena \in CenaInputs, kat_idx \in Ids :
          EditSubmit(sel, nazwa, liczba, cena, kat_idx)
    \/ \E nazwa \in NameInputs, opis \in OpisInputs : AddKategoriaSubmit(nazwa, opis)
    \/ \E nazwa \in ProdNameInputs, liczba \in LiczbaInputs, cena \in CenaInputs,
          kat_idx \in Ids : AddProduktSubmit(nazwa, liczba, cena, kat_idx)
    \/ \E sel \in Ids : DeleteProduktClick(sel)
    \/ \E sel \in Ids : DeleteKategoriaClick(sel)
    \/ \E entry \in Entries : TtlExpires(entry)

Spec == Init /\ [][Next]_vars

---------------------------------------------------------------------------
(* The DB functions called directly, with any argument (lines 94-125) *)

\* texts passed as nazwa of a category
RepoNazwaArgs == { <<>>, <<"a">> }

\* numbers passed as liczba and cena, in halves: -1.5 and 1 when MaxNum = 1
RepoNumArgs == { -(2 * MaxNum + 1), 2 * MaxNum }

\* what is passed as opis
RepoOpisArgs == { None, <<"x">> }

\* ids passed as kategoria_id: None (0), ids of rows and ids of no row
RepoKatArgs == 0 .. MaxId

Apply(res, op) ==
    /\ kategorie' = res.kategorie
    /\ produkty' = res.produkty
    /\ last' = [op |-> op, outcome |-> IF res.raised = "" THEN "returned" ELSE "raised"]
    /\ UNCHANGED <<cache_data, df, metrics>>

CallAddKategoria(nazwa, opis) ==
    \E new_id \in FreshIds(kategorie) :
        Apply(add_kategoria(kategorie, produkty, nazwa, opis, new_id), "add_kategoria")

CallAddProdukt(nazwa, liczba, cena, kategoria_id) ==
    \E new_id \in FreshIds(produkty) :
        Apply(add_produkt(kategorie, produkty, nazwa, liczba, cena, kategoria_id,
                          new_id), "add_produkt")

CallUpdateProdukt(prod_id, nazwa, liczba, cena, kategoria_id) ==
    Apply(update_produkt(kategorie, produkty, prod_id, nazwa, liczba, cena,
                         kategoria_id), "update_produkt")

CallDeleteProdukt(prod_id) ==
    Apply(delete_produkt(kategorie, produkty, prod_id), "delete_produkt")

CallDeleteKategoria(kat_id) ==
    Apply(delete_kategoria(kategorie, produkty, kat_id), "delete_kategoria")

\* empty tables, nothing read yet
RepoInit ==
    /\ kategorie = {}
    /\ produkty = {}
    /\ cache_data = EmptyCache
    /\ df = <<>>
    /\ metrics = <<>>
    /\ last = [op |-> "none", outcome |-> "none"]

RepoNext ==
    \/ \E nazwa \in RepoNazwaArgs, opis \in RepoOpisArgs : CallAddKategoria(nazwa, opis)
    \/ \E liczba \in RepoNumArgs, cena \in RepoNumArgs, kategoria_id \in RepoKatArgs :
          CallAddProdukt(<<"p">>, liczba, cena, kategoria_id)
    \/ \E prod_id \in Ids, liczba \in RepoNumArgs, cena \in RepoNumArgs,
          kategoria_id \in RepoKatArgs :
          CallUpdateProdukt(prod_id, <<"p">>, liczba, cena, kategoria_id)
    \/ \E prod_id \in Ids : CallDeleteProdukt(prod_id)
    \/ \E kat_id \in Ids : CallDeleteKategoria(kat_id)

SpecRepo == RepoInit /\ [][RepoNext]_vars

---------------------------------------------------------------------------
(* fetch_produkty_join and the Dashboard's figures over any rows the two   *)
(* reads can return: fields may be missing, a kategoria_id may match no    *)
(* category                                                                *)

\* rows, and each of them with one more field
Opt(rows, key, values) == rows \cup { With(r, key, v) : r \in rows, v \in values }

ViewProdRows(id) ==
    Opt(Opt(Opt({[id |-> id, nazwa |-> <<"p">>]}, "liczba", 0 .. MaxNum),
            "cena", 0 .. MaxNum), "kategoria_id", Ids)

ViewKatRows(id) == { [id |-> id, nazwa |-> n] : n \in { <<"a">>, <<"b">> } }

\* the tables with at most one row for each id up to n
RECURSIVE ProdTables(_)
ProdTables(n) ==
    IF n = 0 THEN {{}}
    ELSE ProdTables(n - 1)
         \cup { t \cup {r} : t \in ProdTables(n - 1), r \in ViewProdRows(n) }

RECURSIVE KatTables(_)
KatTables(n) ==
    IF n = 0 THEN {{}}
    ELSE KatTables(n - 1)
         \cup { t \cup {r} : t \in KatTables(n - 1), r \in ViewKatRows(n) }

ViewInit ==
    /\ kategorie \in KatTables(MaxId)
    /\ produkty \in ProdTables(MaxId)
    /\ cache_data = EmptyCache
    /\ df = <<>>
    /\ metrics = <<>>
    /\ last = [op |-> "none", outcome |-> "none"]

ViewNext ==
    \/ \E limit \in 0 .. MaxLimit : Render("Dashboard", limit)
    \/ Render("Podglad Danych", 0)

SpecView == ViewInit /\ [][ViewNext]_vars

---------------------------------------------------------------------------
(* Properties *)

\* what the storage holds, as a read that misses the cache returns it
ListKategorie == select_order_id(kategorie)
ListProdukty == select_order_id(produkty)

\* a text that is empty or holds nothing but spaces
Blank(text) == \A i \in 1 .. Len(text) : text[i] = " "

\* an entry holds nothing, or this value
HoldsOnly(entry, value) == cache_data[entry] = <<>> \/ cache_data[entry] = <<value>>

\* C1: after a write that completed, and in fact in every state the single
\* user can reach, no read is served a value older than the storage: each
\* cache entry is empty or holds what its query returns now, so each of the
\* three reads returns the current contents, and the data frame on the
\* screen is the join of the current tables.
C1_ReadsAreFresh ==
    /\ HoldsOnly("fetch_kategorie", ListKategorie)
    /\ HoldsOnly("fetch_produkty_raw", ListProdukty)
    /\ HoldsOnly("fetch_produkty_join", JoinRows(ListProdukty, ListKategorie))
    /\ fetch_kategorie(cache_data, kategorie).val = ListKategorie
    /\ fetch_produkty_raw(cache_data, produkty).val = ListProdukty
    /\ fetch_produkty_join(cache_data, kategorie, produkty).val
           = JoinRows(ListProdukty, ListKategorie)
    /\ last.outcome = "success" =>
           /\ df = JoinRows(ListProdukty, ListKategorie)
           /\ cache_data.fetch_produkty_join # <<>>

\* the only product was deleted, and the join read after it is the empty list
C1_Witness ==
    /\ last = [op |-> "delete_produkt", outcome |-> "success"]
    /\ kategorie # {}
    /\ cache_data.fetch_produkty_join = << <<>> >>
    /\ cache_data.fetch_kategorie # <<>>

C2_Post(k) ==
    IF \E p \in produkty : Has(p, "kategoria_id") /\ p.kategoria_id = k
    THEN /\ last'.outcome = "error"
         /\ kategorie' = kategorie
         /\ produkty' = produkty
    ELSE /\ last'.outcome = "success"
         /\ k \in IdsOf(kategorie)
         /\ kategorie' = { c \in kategorie : c.id # k }
         /\ produkty' = produkty

\* C2: deleting category k fails (the storage refuses, the handler reports the
\* error) whenever some product has kategoria_id = k, and then no row of
\* either table changes; when no product references k it succeeds and removes
\* the row k and nothing else.
C2_DeleteCategory ==
    [][\A sel \in Ids :
          (last'.op = "delete_kategoria" /\ DeleteKategoriaClick(sel))
              => C2_Post(ListKategorie[sel].id)]_vars

\* a delete was refused while another category, not referenced, stood by
C2_Witness ==
    /\ last = [op |-> "delete_kategoria", outcome |-> "error"]
    /\ Cardinality(kategorie) = 2
    /\ \E k \in kategorie :
          ~ \E p \in produkty : Has(p, "kategoria_id") /\ p.kategoria_id = k.id

C3_Rejected ==
    /\ last'.outcome = "warning"
    /\ kategorie' = kategorie
    /\ produkty' = produkty

\* C3: submitting "add category" or "add product" with a name that is empty
\* or only spaces always ends in the validation warning, and the rows of
\* both tables are the same before and after.
C3_BlankNameRejected ==
    [][/\ \A nazwa \in NameInputs, opis \in OpisInputs :
            (Blank(nazwa) /\ last'.op = "add_kategoria"
                 /\ AddKategoriaSubmit(nazwa, opis)) => C3_Rejected
       /\ \A nazwa \in ProdNameInputs, liczba \in LiczbaInputs,
             cena \in CenaInputs, kat_idx \in Ids :
            (Blank(nazwa) /\ last'.op = "add_produkt"
                 /\ AddProduktSubmit(nazwa, liczba, cena, kat_idx)) => C3_Rejected
      ]_vars

\* a product with a blank name was refused while products exist
C3_Witness ==
    /\ last = [op |-> "add_produkt", outcome |-> "warning"]
    /\ produkty # {}

\* the list fetch_produkty_raw returns after the step
C5_ListAfter == fetch_produkty_raw(cache_data', produkty').val

C5_Added(rows, nazwa, liczba, cena, kat_name) ==
    /\ last'.outcome = "success"
    /\ Len(rows) = Cardinality(produkty) + 1
    /\ \A old \in produkty : \E i \in 1 .. Len(rows) : rows[i] = old
    /\ \E i \in 1 .. Len(rows) :
          /\ rows[i].id \notin IdsOf(produkty)
          /\ rows[i].nazwa = strip(nazwa)
          /\ rows[i].liczba = liczba
          /\ rows[i].cena = cena
          /\ Has(rows[i], "kategoria_id")
          /\ \E k \in kategorie : k.id = rows[i].kategoria_id /\ k.nazwa = kat_name

C6_NoDanglingCategory ==
    \A p \in produkty :
        Has(p, "kategoria_id") => \E k \in kategorie : k.id = p.kategoria_id

\* the delete of a referenced category was just refused
C6_Witness ==
    /\ last = [op |-> "delete_kategoria", outcome |-> "raised"]
    /\ \E p \in produkty : Has(p, "kategoria_id")

\* C4 as the specification states it: update_produkt with an id no product
\* row has fails (raises) and leaves every row as it was.
C4_UpdateMissingIdFails ==
    [][\A prod_id \in Ids, liczba \in RepoNumArgs, cena \in RepoNumArgs,
          kategoria_id \in RepoKatArgs :
          (prod_id \notin IdsOf(produkty) /\ last'.op = "update_produkt"
               /\ CallUpdateProdukt(prod_id, <<"p">>, liczba, cena, kategoria_id))
              => /\ last'.outcome = "raised"
                 /\ kategorie' = kategorie
                 /\ produkty' = produkty]_vars

C7_Written == produkty' \ produkty

\* liczba and cena are carried in halves: -2 is -1, the largest quantity
\* int() makes negative
C7_SignKept(liczba, cena) ==
    \A p \in C7_Written :
        /\ liczba >= 0 => p.liczba >= 0 /\ 2 * p.liczba <= liczba
        /\ liczba <= -2 => p.liczba < 0
        /\ cena >= 0 => p.cena >= 0
        /\ cena < 0 => p.cena < 0
        /\ p.cena = cena

Quantity(p) == IF Has(p, "liczba") THEN p.liczba ELSE 0
UnitPrice(p) == IF Has(p, "cena") THEN p.cena ELSE 0

C8_RowOf(row, p) ==
    /\ row.id = p.id
    /\ row.nazwa = p.nazwa
    /\ row.liczba = Quantity(p)
    /\ row.cena = UnitPrice(p)
    /\ row.wartosc = Quantity(p) * UnitPrice(p)
    /\ IF Has(p, "kategoria_id") /\ p.kategoria_id \in IdsOf(kategorie)
       THEN /\ Has(row, "kategoria")
            /\ \E k \in kategorie : k.id = p.kategoria_id /\ k.nazwa = row.kategoria
       ELSE ~ Has(row, "kategoria")

\* C8: the joined rows are one per product, by ascending id; each carries the
\* name of the category whose id is the product's kategoria_id, or none when
\* that is unset or matches no category; wartosc is liczba times cena, a
\* missing liczba or cena counting as zero.
C8_JoinedRows ==
    last.op = "render" =>
        /\ Len(df) = Cardinality(produkty)
        /\ \A i \in 1 .. Len(df) : \E p \in produkty : C8_RowOf(df[i], p)
        /\ \A i \in 1 .. Len(df), j \in 1 .. Len(df) : i < j => df[i].id < df[j].id

\* two rows were joined: one product has no liczba and points at no category,
\* the other has a category and a value
C8_Witness ==
    /\ last.op = "render"
    /\ Len(df) = 2
    /\ \E p \in produkty :
          /\ ~ Has(p, "liczba")
          /\ Has(p, "kategoria_id")
          /\ p.kategoria_id \notin IdsOf(kategorie)
    /\ \E i \in 1 .. Len(df) : Has(df[i], "kategoria") /\ df[i].wartosc > 0

\* the sum of a column over the rows at the positions in `at`
RECURSIVE C9_Sum(_, _, _)
C9_Sum(rows, column, at) ==
    IF at = {} THEN 0
    ELSE rows[CHOOSE i \in at : TRUE][column]
         + C9_Sum(rows, column, at \ {CHOOSE i \in at : TRUE})

\* the rows of the specification's example: categories 1 "A" and 2 "B", product
\* 1 "x" (3 at 2.0, category 1) and product 2 "y" (0 at 5.0, no category); with
\* the threshold 5 the figures are 6.0, 3 and 2
C9_Example ==
    Aggregate(JoinRows(<< [id |-> 1, nazwa |-> <<"x">>, liczba |-> 3, cena |-> 4,
                           kategoria_id |-> 1],
                          [id |-> 2, nazwa |-> <<"y">>, liczba |-> 0, cena |-> 10] >>,
                       << [id |-> 1, nazwa |-> <<"A">>], [id |-> 2, nazwa |-> <<"B">>] >>),
              5)
        = [total_value |-> 12, total_items |-> 3, low_stock_count |-> 2]

C9_Figures(rows, limit) ==
    /\ C9_Example
    /\ metrics'[1].total_value = C9_Sum(rows, "wartosc", DOMAIN rows)
    /\ metrics'[1].total_items = C9_Sum(rows, "liczba", DOMAIN rows)
    /\ metrics'[1].low_stock_count
           = Cardinality({ i \in DOMAIN rows : ~ (rows[i].liczba > limit) })
    /\ rows = <<>> => metrics'[1] = [total_value |-> 0, total_items |-> 0,
                                     low_stock_count |-> 0]

\* C9: for every row set and every threshold >= 0 the Dashboard shows the sum
\* of wartosc, the sum of liczba and the number of rows with liczba <=
\* threshold; over no rows all three are zero.
C9_Aggregates ==
    [][\A limit \in 0 .. MaxLimit :
          (metrics' # <<>> /\ Render("Dashboard", limit)) => C9_Figures(df', limit)]_vars

\* of two rows one is at the threshold or below and one above it
C9_Witness ==
    /\ metrics # <<>>
    /\ Len(df) = 2
    /\ metrics[1].low_stock_count = 1
    /\ metrics[1].total_value > 0

C10_KeepsCategory(old) ==
    \A p \in produkty' :
        p.id = old.id => Has(p, "kategoria_id") /\ p.kategoria_id = old.kategoria_id

\* C10: submitting the edit form with the category left at its preselected
\* position writes the kategoria_id the product already had.
C10_DefaultKeepsCategory ==
    [][\A sel \in Ids, nazwa \in ProdNameInputs, liczba \in LiczbaInputs,
          cena \in CenaInputs, kat_idx \in Ids :
          (/\ last'.op = "edit"
           /\ last'.outcome = "success"
           /\ EditSubmit(sel, nazwa, liczba, cena, kat_idx)
           /\ kat_idx = default_index(ListKategorie, ListProdukty[sel]))
              => C10_KeepsCategory(ListProdukty[sel])]_vars

=============================================================================
